---- MODULE Spec2Model ----
(***************************************************************************)
(* The ch2 assignment flows (a2 .. a10) as one state machine.  A run       *)
(* executes one flow script; Init chooses the script and its parameters.   *)
(* Every task of the run is a <<step name, foreach index>> pair; the       *)
(* artifacts a task writes (self.x = ...) are the record tasks[t].data.    *)
(***************************************************************************)
EXTENDS Integers, Sequences, FiniteSets, TLC

VARIABLES
    flow,       \* the flow script being run
    numbers,    \* a4.py: the "numbers" parameter, a sequence of characters
    num_jobs,   \* a5.py: the "num_jobs" parameter
    csv_file,   \* a8.py: the included file's content, a sequence of characters
    num_points, \* a6.py: the "num_points" parameter
    num_clusters, \* a6.py: the "num_clusters" parameter
    tasks,      \* task id -> [state, retry_count, attempts, data]
    log,        \* task ids in the order their (first) attempt started
    finished,   \* task ids in the order they completed successfully
    inputs,     \* the collection handed to the join step, <<>> before the join
    runState    \* "running", "succeeded" or "failed"

vars ==
    <<flow, numbers, num_jobs, csv_file, num_points, num_clusters,
      tasks, log, finished, inputs, runState>>

params == <<flow, numbers, num_jobs, csv_file, num_points, num_clusters>>

----------------------------------------------------------------------------
(* Bounds of the model. Squares of numbers of up to MaxNumbersLen + 1       *)
(* digits stay below 2^31. *)

MaxNumbersLen == 4

MaxJobs == 2

MaxCsvLen == 5

MaxStudents == 2

MaxPoints == 6

MaxClusters == 3

----------------------------------------------------------------------------
(* Generic helpers. *)

None == "None"

NoTasks == [t \in {} |-> None]

T(step) == <<step, 0>>

RECURSIVE SumSeq(_)
SumSeq(s) == IF s = <<>> THEN 0 ELSE Head(s) + SumSeq(Tail(s))

Started(t) == t \in DOMAIN tasks

IsDone(t) == Started(t) /\ tasks[t].state = "done"

Put(t, rec) == [x \in DOMAIN tasks \cup {t} |-> IF x = t THEN rec ELSE tasks[x]]

(* Variant: attempts numbered from 1. *)
NewTaskMut(st, d) == [state |-> st, retry_count |-> 1, attempts |-> 1, data |-> d]

NewTask(st, d) == [state |-> st, retry_count |-> 0, attempts |-> 1, data |-> d]

(* A task with one predecessor starts once the predecessor has completed,   *)
(* the task itself has not started, and the run has not failed.             *)
Ready(step, pred) == runState = "running" /\ IsDone(T(pred)) /\ ~Started(T(step))

SetArt(d, k, v) == [x \in DOMAIN d \cup {k} |-> IF x = k THEN v ELSE d[x]]

(* Variant: one artifact namespace shared by the tasks that are running.     *)
WriteArtShared(tk, t, k, v) ==
    [x \in DOMAIN tk |->
        IF tk[x].state = "running" THEN [tk[x] EXCEPT !.data = SetArt(@, k, v)]
        ELSE tk[x]]

(* self.k = v inside task t: the write goes to t's own artifacts only.      *)
WriteArt(tk, t, k, v) == [tk EXCEPT ![t].data = SetArt(@, k, v)]

(* Variant: the joined tasks in the order they completed.                   *)
RECURSIVE InputsByCompletion(_, _)
InputsByCompletion(order, sibs) ==
    IF order = <<>> THEN <<>>
    ELSE IF \E i \in 1..Len(sibs) : sibs[i] = Head(order)
         THEN <<[step |-> Head(order)[1], data |-> tasks[Head(order)].data]>>
              \o InputsByCompletion(Tail(order), sibs)
         ELSE InputsByCompletion(Tail(order), sibs)

JoinInputsMut(sibs) == InputsByCompletion(finished, sibs)

(* The collection a join receives: one entry per joined task, in the order  *)
(* the branches are declared (split) or in index order (foreach).           *)
JoinInputs(sibs) ==
    [i \in 1..Len(sibs) |-> [step |-> sibs[i][1], data |-> tasks[sibs[i]].data]]

(* inputs.<step>: the entry of the named branch. *)
InputOf(inps, step) == (CHOOSE i \in DOMAIN inps : inps[i].step = step)

(* Variant: the join waits only for its branches to end, however they end.  *)
JoinReadyMut(sibs, step) ==
    /\ \A i \in 1..Len(sibs) : Started(sibs[i]) /\ tasks[sibs[i]].state \in {"done", "failed"}
    /\ ~Started(T(step))

(* A join starts once every joined task has completed successfully.         *)
JoinReady(sibs, step) ==
    /\ runState = "running"
    /\ \A i \in 1..Len(sibs) : IsDone(sibs[i])
    /\ ~Started(T(step))

(* Runs a whole task of a linear step: it starts from a copy of its         *)
(* predecessor's artifacts and commits what the body returns.               *)
RunTask(t, d) ==
    /\ tasks' = Put(t, NewTask("done", d))
    /\ log' = Append(log, t)
    /\ finished' = Append(finished, t)

----------------------------------------------------------------------------
(* a2.py: ArithmeticFlow *)

Arithmetic_start_body ==
    LET s1 == [number |-> 5]
    IN  [number |-> s1.number, history |-> <<s1.number>>]

add_step_body(self) ==
    LET s1 == [self EXCEPT !.number = @ + 10]
    IN  [s1 EXCEPT !.history = Append(@, s1.number)]

(* Variant: subtracts 10. *)
subtract_step_bodyMut(self) ==
    LET s1 == [self EXCEPT !.number = @ - 10]
    IN  [s1 EXCEPT !.history = Append(@, s1.number)]

subtract_step_body(self) ==
    LET s1 == [self EXCEPT !.number = @ - 3]
    IN  [s1 EXCEPT !.history = Append(@, s1.number)]

(* Variant: records the number before multiplying it. *)
multiply_step_bodyMut(self) ==
    LET s1 == [self EXCEPT !.history = Append(@, self.number)]
    IN  [s1 EXCEPT !.number = @ * 2]

multiply_step_body(self) ==
    LET s1 == [self EXCEPT !.number = @ * 2]
    IN  [s1 EXCEPT !.history = Append(@, s1.number)]

Arithmetic_end_body(self) ==
    LET total_sum == SumSeq(self.history)
    IN  self

ArithmeticFlow_start ==
    /\ flow = "ArithmeticFlow" /\ runState = "running" /\ ~Started(T("start"))
    /\ RunTask(T("start"), Arithmetic_start_body)
    /\ UNCHANGED <<params, inputs, runState>>

ArithmeticFlow_add_step ==
    /\ flow = "ArithmeticFlow" /\ Ready("add_step", "start")
    /\ RunTask(T("add_step"), add_step_body(tasks[T("start")].data))
    /\ UNCHANGED <<params, inputs, runState>>

ArithmeticFlow_subtract_step ==
    /\ flow = "ArithmeticFlow" /\ Ready("subtract_step", "add_step")
    /\ RunTask(T("subtract_step"), subtract_step_body(tasks[T("add_step")].data))
    /\ UNCHANGED <<params, inputs, runState>>

ArithmeticFlow_multiply_step ==
    /\ flow = "ArithmeticFlow" /\ Ready("multiply_step", "subtract_step")
    /\ RunTask(T("multiply_step"), multiply_step_body(tasks[T("subtract_step")].data))
    /\ UNCHANGED <<params, inputs, runState>>

ArithmeticFlow_end ==
    /\ flow = "ArithmeticFlow" /\ Ready("end", "multiply_step")
    /\ RunTask(T("end"), Arithmetic_end_body(tasks[T("multiply_step")].data))
    /\ runState' = "succeeded"
    /\ UNCHANGED <<params, inputs>>

----------------------------------------------------------------------------
(* a3.py: ParallelOpsFlow *)

ParallelOps_start_body == [artifact |-> 10]

ParallelOps_branches == <<T("add_constant"), T("multiply_constant")>>

add_constant_result(self) == self.artifact + self.constant

multiply_constant_result(self) == self.artifact * self.constant

(* Variant: both results read from the add_constant branch. *)
ParallelOps_join_bodyMut(inps) ==
    LET add_result == inps[InputOf(inps, "add_constant")].data.result
        multiply_result == inps[InputOf(inps, "add_constant")].data.result
    IN  [add_result |-> add_result, multiply_result |-> multiply_result,
         final_sum |-> add_result + multiply_result]

ParallelOps_join_body(inps) ==
    LET add_result == inps[InputOf(inps, "add_constant")].data.result
        multiply_result == inps[InputOf(inps, "multiply_constant")].data.result
    IN  [add_result |-> add_result, multiply_result |-> multiply_result,
         final_sum |-> add_result + multiply_result]

ParallelOpsFlow_start ==
    /\ flow = "ParallelOpsFlow" /\ runState = "running" /\ ~Started(T("start"))
    /\ RunTask(T("start"), ParallelOps_start_body)
    /\ UNCHANGED <<params, inputs, runState>>

(* The branch runs in its own process: this is its first assignment,        *)
(* self.constant = 5; the second one is ParallelOpsFlow_add_constant_finish. *)
ParallelOpsFlow_add_constant_begin ==
    /\ flow = "ParallelOpsFlow" /\ Ready("add_constant", "start")
    /\ tasks' = WriteArt(Put(T("add_constant"), NewTask("running", tasks[T("start")].data)),
                         T("add_constant"), "constant", 5)
    /\ log' = Append(log, T("add_constant"))
    /\ UNCHANGED <<params, finished, inputs, runState>>

ParallelOpsFlow_add_constant_finish ==
    /\ flow = "ParallelOpsFlow" /\ runState = "running"
    /\ Started(T("add_constant")) /\ tasks[T("add_constant")].state = "running"
    /\ tasks' = [WriteArt(tasks, T("add_constant"), "result",
                          add_constant_result(tasks[T("add_constant")].data))
                    EXCEPT ![T("add_constant")].state = "done"]
    /\ finished' = Append(finished, T("add_constant"))
    /\ UNCHANGED <<params, log, inputs, runState>>

ParallelOpsFlow_multiply_constant_begin ==
    /\ flow = "ParallelOpsFlow" /\ Ready("multiply_constant", "start")
    /\ tasks' = WriteArt(Put(T("multiply_constant"), NewTask("running", tasks[T("start")].data)),
                         T("multiply_constant"), "constant", 2)
    /\ log' = Append(log, T("multiply_constant"))
    /\ UNCHANGED <<params, finished, inputs, runState>>

ParallelOpsFlow_multiply_constant_finish ==
    /\ flow = "ParallelOpsFlow" /\ runState = "running"
    /\ Started(T("multiply_constant")) /\ tasks[T("multiply_constant")].state = "running"
    /\ tasks' = [WriteArt(tasks, T("multiply_constant"), "result",
                          multiply_constant_result(tasks[T("multiply_constant")].data))
                    EXCEPT ![T("multiply_constant")].state = "done"]
    /\ finished' = Append(finished, T("multiply_constant"))
    /\ UNCHANGED <<params, log, inputs, runState>>

ParallelOpsFlow_join ==
    /\ flow = "ParallelOpsFlow" /\ JoinReady(ParallelOps_branches, "join")
    /\ inputs' = JoinInputs(ParallelOps_branches)
    /\ RunTask(T("join"), ParallelOps_join_body(inputs'))
    /\ UNCHANGED <<params, runState>>

ParallelOpsFlow_end ==
    /\ flow = "ParallelOpsFlow" /\ Ready("end", "join")
    /\ RunTask(T("end"), tasks[T("join")].data)
    /\ runState' = "succeeded"
    /\ UNCHANGED <<params, inputs>>

----------------------------------------------------------------------------
(* a4.py: SquareNumbersFlow *)

Digits == <<"0", "1", "2", "3", "4", "5", "6", "7", "8", "9">>

IsDigit(c) == \E i \in 1..10 : Digits[i] = c

DigitVal(c) == (CHOOSE i \in 1..10 : Digits[i] = c) - 1

NumbersDefault == <<"1", ",", "2", ",", "3", ",", "4", ",", "5">>

NumbersChars == {"1", "2", ",", " ", "-"}

Strings(chars, n) == UNION {[1..k -> chars] : k \in 0..n}

(* str.split(sep): the pieces between separators; "" splits into [""]. *)
RECURSIVE SplitAcc(_, _, _)
SplitAcc(s, sep, cur) ==
    IF s = <<>> THEN <<cur>>
    ELSE IF Head(s) = sep THEN <<cur>> \o SplitAcc(Tail(s), sep, <<>>)
         ELSE SplitAcc(Tail(s), sep, Append(cur, Head(s)))

Split(s, sep) == SplitAcc(s, sep, <<>>)

IsSpace(c) == c \in {" ", "\n", "\r"}

RECURSIVE LStrip(_)
LStrip(s) == IF s # <<>> /\ IsSpace(Head(s)) THEN LStrip(Tail(s)) ELSE s

RECURSIVE RStrip(_)
RStrip(s) ==
    IF s # <<>> /\ IsSpace(s[Len(s)]) THEN RStrip(SubSeq(s, 1, Len(s) - 1)) ELSE s

Strip(s) == RStrip(LStrip(s))

RECURSIVE DecimalValue(_, _)
DecimalValue(s, acc) ==
    IF s = <<>> THEN acc ELSE DecimalValue(Tail(s), 10 * acc + DigitVal(Head(s)))

(* int(text): an optional sign and at least one digit, else ValueError. *)
IntOf(text) ==
    LET s == Strip(text)
        signed == s # <<>> /\ Head(s) \in {"-", "+"}
        body == IF signed THEN Tail(s) ELSE s
        ok == body # <<>> /\ \A i \in 1..Len(body) : IsDigit(body[i])
    IN  IF ~ok THEN [ok |-> FALSE, val |-> 0]
        ELSE [ok |-> TRUE,
              val |-> IF signed /\ Head(s) = "-" THEN 0 - DecimalValue(body, 0)
                      ELSE DecimalValue(body, 0)]

(* [int(n.strip()) for n in self.numbers.split(",")] *)
ParseNumbers(text) ==
    LET toks == Split(text, ",")
        ints == [i \in 1..Len(toks) |-> IntOf(Strip(toks[i]))]
    IN  IF \A i \in 1..Len(toks) : ints[i].ok
        THEN [ok |-> TRUE, list |-> [i \in 1..Len(toks) |-> ints[i].val]]
        ELSE [ok |-> FALSE, list |-> <<>>]

(* Variant: the last branch is left out. *)
ForeachTasksMut(step, n) == [i \in 1..(n - 1) |-> <<step, i - 1>>]

(* The tasks of a foreach over items: one per item, indexed from 0. *)
ForeachTasks(step, n) == [i \in 1..n |-> <<step, i - 1>>]

(* Variant: doubles instead of squaring. *)
square_bodyMut(self, input) ==
    [number_list |-> self.number_list, input_number |-> input,
     squared_result |-> input * 2]

square_body(self, input) ==
    [number_list |-> self.number_list, input_number |-> input,
     squared_result |-> input * input]

SquareNumbers_join_body(inps) ==
    LET squared_numbers == [i \in 1..Len(inps) |-> inps[i].data.squared_result]
        original_numbers == [i \in 1..Len(inps) |-> inps[i].data.input_number]
    IN  [squared_numbers |-> squared_numbers, original_numbers |-> original_numbers,
         squared_sum |-> SumSeq(squared_numbers)]

SquareNumbersFlow_start ==
    /\ flow = "SquareNumbersFlow" /\ runState = "running" /\ ~Started(T("start"))
    /\ LET parsed == ParseNumbers(numbers)
       IN  IF parsed.ok
           THEN /\ RunTask(T("start"), [number_list |-> parsed.list])
                /\ UNCHANGED runState
           ELSE /\ tasks' = Put(T("start"), NewTask("failed", <<>>))
                /\ log' = Append(log, T("start"))
                /\ runState' = "failed"
                /\ UNCHANGED finished
    /\ UNCHANGED <<params, inputs>>

SquareNumbersFlow_square ==
    /\ flow = "SquareNumbersFlow" /\ runState = "running" /\ IsDone(T("start"))
    /\ LET self == tasks[T("start")].data
       IN  \E i \in 1..Len(self.number_list) :
             /\ ~Started(<<"square", i - 1>>)
             /\ RunTask(<<"square", i - 1>>, square_body(self, self.number_list[i]))
    /\ UNCHANGED <<params, inputs, runState>>

SquareNumbersFlow_join ==
    /\ flow = "SquareNumbersFlow" /\ IsDone(T("start"))
    /\ LET sibs == ForeachTasks("square", Len(tasks[T("start")].data.number_list))
       IN  /\ JoinReady(sibs, "join")
           /\ inputs' = JoinInputs(sibs)
           /\ RunTask(T("join"), SquareNumbers_join_body(inputs'))
    /\ UNCHANGED <<params, runState>>

SquareNumbersFlow_end ==
    /\ flow = "SquareNumbersFlow" /\ Ready("end", "join")
    /\ RunTask(T("end"), tasks[T("join")].data)
    /\ runState' = "succeeded"
    /\ UNCHANGED <<params, inputs>>

----------------------------------------------------------------------------
(* a5.py: RetryFlow *)

RetryTimes == 3

(* Variant: `times` taken as the total number of attempts. *)
ShouldRetryMut(retry_count) == retry_count + 1 < RetryTimes

(* Variant: a failed attempt is always retried. *)
ShouldRetryAlways(retry_count) == TRUE

(* @retry(times=3): a failed attempt is retried while fewer than `times`   *)
(* retries have been made, so a task gets at most times + 1 attempts.      *)
ShouldRetry(retry_count) == retry_count < RetryTimes

(* list(range(self.num_jobs)) *)
Range(n) == [i \in 1..n |-> i - 1]

Flaky(i) == <<"flaky_service", i - 1>>

(* [inp.result for inp in inputs]; a missing artifact is an AttributeError. *)
Retry_join_body(inps) ==
    IF \A i \in 1..Len(inps) : "result" \in DOMAIN inps[i].data
    THEN [ok |-> TRUE, data |-> [results |-> [i \in 1..Len(inps) |-> inps[i].data.result]]]
    ELSE [ok |-> FALSE, data |-> <<>>]

RetryFlow_start ==
    /\ flow = "RetryFlow" /\ runState = "running" /\ ~Started(T("start"))
    /\ RunTask(T("start"), [jobs |-> Range(num_jobs)])
    /\ UNCHANGED <<params, inputs, runState>>

(* An attempt of branch i starts: the first one, or a retry. Every attempt  *)
(* starts from the artifacts of the start step.                            *)
RetryFlow_flaky_service_begin ==
    /\ flow = "RetryFlow" /\ runState = "running" /\ IsDone(T("start"))
    /\ \E i \in 1..Len(tasks[T("start")].data.jobs) :
         \/ /\ ~Started(Flaky(i))
            /\ tasks' = Put(Flaky(i), NewTask("running", tasks[T("start")].data))
            /\ log' = Append(log, Flaky(i))
         \/ /\ Started(Flaky(i)) /\ tasks[Flaky(i)].state = "pending"
            /\ tasks' = [tasks EXCEPT ![Flaky(i)].state = "running",
                                      ![Flaky(i)].attempts = @ + 1,
                                      ![Flaky(i)].data = tasks[T("start")].data]
            /\ UNCHANGED log
    /\ UNCHANGED <<params, finished, inputs, runState>>

(* random.random() < success_probability *)
RetryFlow_flaky_service_succeed ==
    /\ flow = "RetryFlow" /\ runState = "running"
    /\ \E t \in DOMAIN tasks :
         /\ t[1] = "flaky_service" /\ tasks[t].state = "running"
         /\ tasks' = [WriteArt(tasks, t, "result", "SUCCESS") EXCEPT ![t].state = "done"]
         /\ finished' = Append(finished, t)
    /\ UNCHANGED <<params, log, inputs, runState>>

(* raise ServiceError: the attempt's artifacts are dropped; the task is     *)
(* retried, or fails for good and fails the run with it.                    *)
RetryFlow_flaky_service_raise ==
    /\ flow = "RetryFlow" /\ runState = "running"
    /\ \E t \in DOMAIN tasks :
         /\ t[1] = "flaky_service" /\ tasks[t].state = "running"
         /\ IF ShouldRetry(tasks[t].retry_count)
            THEN /\ tasks' = [tasks EXCEPT ![t].state = "pending",
                                           ![t].retry_count = @ + 1,
                                           ![t].data = <<>>]
                 /\ UNCHANGED runState
            ELSE /\ tasks' = [tasks EXCEPT ![t].state = "failed", ![t].data = <<>>]
                 /\ runState' = "failed"
    /\ UNCHANGED <<params, log, finished, inputs>>

RetryFlow_join ==
    /\ flow = "RetryFlow" /\ IsDone(T("start"))
    /\ LET sibs == ForeachTasks("flaky_service", Len(tasks[T("start")].data.jobs))
       IN  /\ JoinReady(sibs, "join")
           /\ inputs' = JoinInputs(sibs)
           /\ LET r == Retry_join_body(inputs')
              IN  IF r.ok
                  THEN RunTask(T("join"), r.data) /\ UNCHANGED runState
                  ELSE /\ tasks' = Put(T("join"), NewTask("failed", <<>>))
                       /\ log' = Append(log, T("join"))
                       /\ runState' = "failed"
                       /\ UNCHANGED finished
    /\ UNCHANGED params

RetryFlow_end ==
    /\ flow = "RetryFlow" /\ Ready("end", "join")
    /\ RunTask(T("end"), tasks[T("join")].data)
    /\ runState' = "succeeded"
    /\ UNCHANGED <<params, inputs>>

----------------------------------------------------------------------------
(* a8.py: CSVProcessingFlow. csv_file is text (IncludeFile's default), so   *)
(* the bytes branch of process_csv is not taken.                           *)

CsvChars == {"a", ",", "\n", " ", "\r"}

EmptyMsg == "The CSV file is empty"

NoDataRowsMsg == "CSV file contains a header but no data rows"

ParseErrorMsg ==
    "Failed to parse CSV: new-line character seen in unquoted field - do you need to open the file in universal-newline mode?"

Min(a, b) == IF a < b THEN a ELSE b

Max(a, b) == IF a > b THEN a ELSE b

(* Iterating StringIO(csv_content): the lines, each with its "\n". *)
RECURSIVE LinesAcc(_, _)
LinesAcc(s, cur) ==
    IF s = <<>> THEN (IF cur = <<>> THEN <<>> ELSE <<cur>>)
    ELSE IF Head(s) = "\n" THEN <<Append(cur, "\n")>> \o LinesAcc(Tail(s), <<>>)
         ELSE LinesAcc(Tail(s), Append(cur, Head(s)))

Lines(s) == LinesAcc(s, <<>>)

(* csv.reader on one line (excel dialect, no quote characters in the       *)
(* alphabet): the fields of the row, or csv.Error.                         *)
RECURSIVE CsvLine(_, _, _, _)
CsvLine(rest, state, fields, cur) ==
    IF rest = <<>>
    THEN [ok |-> TRUE,
          row |-> IF state \in {"START_FIELD", "IN_FIELD"} THEN Append(fields, cur)
                  ELSE fields]
    ELSE LET c == Head(rest)
             nl == c \in {"\n", "\r"}
         IN  CASE state = "START_RECORD" /\ nl ->
                      CsvLine(Tail(rest), "EAT_CRNL", fields, <<>>)
               [] state = "EAT_CRNL" /\ nl ->
                      CsvLine(Tail(rest), "EAT_CRNL", fields, <<>>)
               [] state = "EAT_CRNL" /\ ~nl ->
                      [ok |-> FALSE, row |-> <<>>]
               [] state # "EAT_CRNL" /\ ~(state = "START_RECORD" /\ nl) /\ nl ->
                      CsvLine(Tail(rest), "EAT_CRNL", Append(fields, cur), <<>>)
               [] state # "EAT_CRNL" /\ ~nl /\ c = "," ->
                      CsvLine(Tail(rest), "START_FIELD", Append(fields, cur), <<>>)
               [] OTHER ->
                      CsvLine(Tail(rest), "IN_FIELD", fields, Append(cur, c))

ReadRow(line) == CsvLine(line, "START_RECORD", <<>>, <<>>)

(* Variant: only the empty string is rejected. *)
ValidateCsvContentMut(csv_content) == csv_content # <<>>

(* _validate_csv_content: ValueError when the content is blank. *)
ValidateCsvContent(csv_content) == Strip(csv_content) # <<>>

(* The loop of _check_rows_consistency over the rows left in the reader. *)
RECURSIVE CheckRowsLoop(_, _, _)
CheckRowsLoop(lines, column_count, acc) ==
    IF lines = <<>> THEN [ok |-> TRUE, acc |-> acc]
    ELSE LET r == ReadRow(Head(lines))
             row_len == Len(r.row)
         IN  IF ~r.ok THEN [ok |-> FALSE, acc |-> acc]
             ELSE CheckRowsLoop(Tail(lines), column_count,
                      [row_count |-> acc.row_count + 1,
                       inconsistent_rows |->
                           IF row_len # column_count THEN acc.inconsistent_rows + 1
                           ELSE acc.inconsistent_rows,
                       min_cols |-> Min(acc.min_cols, row_len),
                       max_cols |-> Max(acc.max_cols, row_len)])

CheckRowsConsistency(lines, header) ==
    CheckRowsLoop(lines, Len(header),
        [row_count |-> 0, inconsistent_rows |-> 0,
         min_cols |-> Len(header), max_cols |-> Len(header)])

(* The try block of process_csv: the exception it ends with ("none" when    *)
(* it completes), its message, and the artifacts written on the way.        *)
ProcessCsvTry(csv_content) ==
    IF ~ValidateCsvContent(csv_content)
    THEN [raised |-> "ValueError", msg |-> EmptyMsg, data |-> <<>>]
    ELSE LET reader == Lines(csv_content)
         IN  IF reader = <<>>
             THEN [raised |-> "ValueError", msg |-> NoDataRowsMsg, data |-> <<>>]
             ELSE LET h == ReadRow(Head(reader))
                      written == [column_count |-> Len(h.row), column_names |-> h.row]
                      c == CheckRowsConsistency(Tail(reader), h.row)
                  IN  IF ~h.ok
                      THEN [raised |-> "csv.Error", msg |-> ParseErrorMsg, data |-> <<>>]
                      ELSE IF ~c.ok
                      THEN [raised |-> "csv.Error", msg |-> ParseErrorMsg, data |-> written]
                      ELSE [raised |-> "none", msg |-> "",
                            data |-> [column_count |-> Len(h.row),
                                      column_names |-> h.row,
                                      row_count |-> c.acc.row_count,
                                      inconsistent_rows |-> c.acc.inconsistent_rows,
                                      min_cols |-> c.acc.min_cols,
                                      max_cols |-> c.acc.max_cols,
                                      data_quality_issues |-> c.acc.inconsistent_rows > 0]]

(* The except / else clauses of process_csv. *)
process_csv_body(csv_content) ==
    LET t == ProcessCsvTry(csv_content)
    IN  SetArt(t.data, "error_message", IF t.raised = "none" THEN None ELSE t.msg)

(* end: reads row_count and column_count unless an error was recorded. *)
Csv_end_ok(self) ==
    \/ "error_message" \in DOMAIN self /\ self.error_message # None
    \/ {"row_count", "column_count"} \subseteq DOMAIN self

CSVProcessingFlow_start ==
    /\ flow = "CSVProcessingFlow" /\ runState = "running" /\ ~Started(T("start"))
    /\ RunTask(T("start"), <<>>)
    /\ UNCHANGED <<params, inputs, runState>>

CSVProcessingFlow_process_csv ==
    /\ flow = "CSVProcessingFlow" /\ Ready("process_csv", "start")
    /\ RunTask(T("process_csv"), process_csv_body(csv_file))
    /\ UNCHANGED <<params, inputs, runState>>

CSVProcessingFlow_end ==
    /\ flow = "CSVProcessingFlow" /\ Ready("end", "process_csv")
    /\ LET self == tasks[T("process_csv")].data
       IN  IF Csv_end_ok(self)
           THEN RunTask(T("end"), self) /\ runState' = "succeeded"
           ELSE /\ tasks' = Put(T("end"), NewTask("failed", <<>>))
                /\ log' = Append(log, T("end"))
                /\ runState' = "failed"
                /\ UNCHANGED finished
    /\ UNCHANGED <<params, inputs>>

----------------------------------------------------------------------------
(* a9.py: StudentProcessingFlow. The LLM's reply is an input of the run:    *)
(* the request fails, or the reply does not parse, or it is a list of      *)
(* students with a name and an integer score.                              *)

(* A step without @retry that raises: the task fails and the run with it.   *)
FailTask(t, err) ==
    /\ tasks' = Put(t, NewTask("failed", [error |-> err]))
    /\ log' = Append(log, t)
    /\ runState' = "failed"
    /\ UNCHANGED finished

NameValues == {<<"a", "b">>, <<"A", "b">>}

ScoreValues == {50, 89, 90, 91, 100}

StudentValues == [name : NameValues, score : ScoreValues]

StudentLists == UNION {[1..k -> StudentValues] : k \in 1..MaxStudents}

(* requests.post / raise_for_status / response.json / json.loads(...)["students"] *)
StudentRequestErrors == {"ConnectionError", "HTTPError", "JSONDecodeError", "KeyError"}

UpperChar(c) == CASE c = "a" -> "A" [] c = "b" -> "B" [] OTHER -> c

Upper(str) == [i \in 1..Len(str) |-> UpperChar(str[i])]

(* Variant: the score is raised by 10 and not capped. *)
process_student_bodyMut(self, input) ==
    LET s1 == [input EXCEPT !.name = Upper(@)]
        s2 == [s1 EXCEPT !.score = @ + 10]
    IN  SetArt(self, "student", s2)

process_student_body(self, input) ==
    LET s1 == [input EXCEPT !.name = Upper(@)]
        s2 == [s1 EXCEPT !.score = @ + 10]
        s3 == [s2 EXCEPT !.score = Min(@, 100)]
    IN  SetArt(self, "student", s3)

(* average_score, a quotient, is kept as numerator and denominator. *)
join_results_body(inps) ==
    LET processed_students == [i \in 1..Len(inps) |-> inps[i].data.student]
        total_score == SumSeq([i \in 1..Len(inps) |-> processed_students[i].score])
    IN  [processed_students |-> processed_students,
         total_score |-> total_score,
         average_score |-> <<total_score, Len(processed_students)>>]

StudentProcessingFlow_start ==
    /\ flow = "StudentProcessingFlow" /\ runState = "running" /\ ~Started(T("start"))
    /\ RunTask(T("start"), <<>>)
    /\ UNCHANGED <<params, inputs, runState>>

StudentProcessingFlow_generate_student_data ==
    /\ flow = "StudentProcessingFlow" /\ Ready("generate_student_data", "start")
    /\ \/ \E err \in StudentRequestErrors :
            FailTask(T("generate_student_data"), err)
       \/ \E students \in StudentLists :
            /\ RunTask(T("generate_student_data"), [students |-> students])
            /\ UNCHANGED runState
    /\ UNCHANGED <<params, inputs>>

StudentProcessingFlow_process_student ==
    /\ flow = "StudentProcessingFlow" /\ runState = "running"
    /\ IsDone(T("generate_student_data"))
    /\ LET self == tasks[T("generate_student_data")].data
       IN  \E i \in 1..Len(self.students) :
             /\ ~Started(<<"process_student", i - 1>>)
             /\ RunTask(<<"process_student", i - 1>>,
                        process_student_body(self, self.students[i]))
    /\ UNCHANGED <<params, inputs, runState>>

StudentProcessingFlow_join_results ==
    /\ flow = "StudentProcessingFlow" /\ IsDone(T("generate_student_data"))
    /\ LET sibs == ForeachTasks("process_student",
                                Len(tasks[T("generate_student_data")].data.students))
       IN  /\ JoinReady(sibs, "join_results")
           /\ inputs' = JoinInputs(sibs)
           /\ RunTask(T("join_results"), join_results_body(inputs'))
    /\ UNCHANGED <<params, runState>>

StudentProcessingFlow_end ==
    /\ flow = "StudentProcessingFlow" /\ Ready("end", "join_results")
    /\ RunTask(T("end"), tasks[T("join_results")].data)
    /\ runState' = "succeeded"
    /\ UNCHANGED <<params, inputs>>

----------------------------------------------------------------------------
(* a10.py: PromptResponseFlow. The outcome of the HTTP call and the reply   *)
(* are inputs of the attempt.                                              *)

(* Variant: generate_response decorated like flaky_service. *)
GenerateResponseRetriesMut == RetryTimes

(* generate_response carries @step only: no retries. *)
GenerateResponseRetries == 0

(* requests.post (transport), raise_for_status (non-2xx), response.json /   *)
(* json.loads (reply is not JSON), ["answer"] (no such field).              *)
GenerateResponseErrors == {"ConnectionError", "HTTPError", "JSONDecodeError", "KeyError"}

AnswerValues == {"joke"}

generate_response_body(self, answer) ==
    [timestamp |-> "now", response_data |-> <<"answer", answer>>, response |-> answer]

create_card_body(self) == SetArt(self, "html", <<self.timestamp, self.response>>)

PromptResponseFlow_start ==
    /\ flow = "PromptResponseFlow" /\ runState = "running" /\ ~Started(T("start"))
    /\ RunTask(T("start"), <<>>)
    /\ UNCHANGED <<params, inputs, runState>>

(* One attempt of generate_response. *)
PromptResponseFlow_generate_response ==
    /\ flow = "PromptResponseFlow" /\ runState = "running" /\ IsDone(T("start"))
    /\ LET t == T("generate_response")
           first == ~Started(t)
           rec == IF first THEN NewTask("running", tasks[T("start")].data)
                  ELSE [tasks[t] EXCEPT !.state = "running", !.attempts = @ + 1]
       IN  /\ IF first THEN TRUE ELSE tasks[t].state = "pending"
           /\ log' = IF first THEN Append(log, t) ELSE log
           /\ \/ \E err \in GenerateResponseErrors :
                   /\ IF rec.retry_count < GenerateResponseRetries
                      THEN /\ tasks' = Put(t, [rec EXCEPT !.state = "pending",
                                                          !.retry_count = @ + 1,
                                                          !.data = [error |-> err]])
                           /\ UNCHANGED runState
                      ELSE /\ tasks' = Put(t, [rec EXCEPT !.state = "failed",
                                                          !.data = [error |-> err]])
                           /\ runState' = "failed"
                   /\ UNCHANGED finished
              \/ \E answer \in AnswerValues :
                   /\ tasks' = Put(t, [rec EXCEPT !.state = "done",
                                                  !.data = generate_response_body(rec.data, answer)])
                   /\ finished' = Append(finished, t)
                   /\ UNCHANGED runState
    /\ UNCHANGED <<params, inputs>>

PromptResponseFlow_create_card ==
    /\ flow = "PromptResponseFlow" /\ Ready("create_card", "generate_response")
    /\ RunTask(T("create_card"), create_card_body(tasks[T("generate_response")].data))
    /\ UNCHANGED <<params, inputs, runState>>

PromptResponseFlow_end ==
    /\ flow = "PromptResponseFlow" /\ Ready("end", "create_card")
    /\ RunTask(T("end"), tasks[T("create_card")].data)
    /\ runState' = "succeeded"
    /\ UNCHANGED <<params, inputs>>

----------------------------------------------------------------------------
(* a6.py: DataVisualizationFlow. A data point is kept as <<i, j>>, the      *)
(* cluster and the index of the random draw it comes from.                  *)

NumPointsDefault == 100

NumClustersDefault == 3

(* for j in range(points_per_cluster): append the point and its label. The  *)
(* two lists grow together; comparing their lengths evaluates each          *)
(* iteration's lists before the next iteration starts.                     *)
RECURSIVE PointLoop(_, _, _, _)
PointLoop(i, j, points_per_cluster, acc) ==
    IF j >= points_per_cluster THEN acc
    ELSE LET next == [data |-> Append(acc.data, <<i, j>>),
                      cluster_labels |-> Append(acc.cluster_labels, i)]
         IN  IF Len(next.data) = Len(next.cluster_labels)
             THEN PointLoop(i, j + 1, points_per_cluster, next)
             ELSE next

(* for i in range(self.num_clusters) *)
RECURSIVE ClusterLoop(_, _, _, _)
ClusterLoop(i, points, clusters, acc) ==
    IF i >= clusters THEN acc
    ELSE ClusterLoop(i + 1, points, clusters,
             PointLoop(i, 0, points \div clusters, acc))

ClusterCount(labels, i) == Cardinality({k \in 1..Len(labels) : labels[k] = i})

DataVisualization_start_body(points, clusters) ==
    LET g == ClusterLoop(0, points, clusters, [data |-> <<>>, cluster_labels |-> <<>>])
    IN  [data |-> g.data, cluster_labels |-> g.cluster_labels,
         stats |-> [i \in 0..(clusters - 1) |-> ClusterCount(g.cluster_labels, i)]]

visualize_data_body(self) == SetArt(self, "html", "card")

DataVisualizationFlow_start ==
    /\ flow = "DataVisualizationFlow" /\ runState = "running" /\ ~Started(T("start"))
    /\ RunTask(T("start"), DataVisualization_start_body(num_points, num_clusters))
    /\ UNCHANGED <<params, inputs, runState>>

DataVisualizationFlow_visualize_data ==
    /\ flow = "DataVisualizationFlow" /\ Ready("visualize_data", "start")
    /\ RunTask(T("visualize_data"), visualize_data_body(tasks[T("start")].data))
    /\ UNCHANGED <<params, inputs, runState>>

DataVisualizationFlow_end ==
    /\ flow = "DataVisualizationFlow" /\ Ready("end", "visualize_data")
    /\ RunTask(T("end"), tasks[T("visualize_data")].data)
    /\ runState' = "succeeded"
    /\ UNCHANGED <<params, inputs>>

----------------------------------------------------------------------------

Flows ==
    {"ArithmeticFlow", "ParallelOpsFlow", "SquareNumbersFlow", "RetryFlow",
     "CSVProcessingFlow", "StudentProcessingFlow", "PromptResponseFlow",
     "DataVisualizationFlow"}

Init ==
    /\ flow \in Flows
    /\ IF flow = "SquareNumbersFlow"
       THEN numbers \in {NumbersDefault} \cup Strings(NumbersChars, MaxNumbersLen)
       ELSE numbers = <<>>
    /\ IF flow = "RetryFlow" THEN num_jobs \in 1..MaxJobs ELSE num_jobs = 0
    /\ IF flow = "CSVProcessingFlow"
       THEN csv_file \in Strings(CsvChars, MaxCsvLen)
       ELSE csv_file = <<>>
    /\ IF flow = "DataVisualizationFlow"
       THEN \E p \in ((1..MaxPoints) \X (1..MaxClusters))
                          \cup {<<NumPointsDefault, NumClustersDefault>>} :
                num_points = p[1] /\ num_clusters = p[2]
       ELSE num_points = 0 /\ num_clusters = 0
    /\ tasks = NoTasks
    /\ log = <<>>
    /\ finished = <<>>
    /\ inputs = <<>>
    /\ runState = "running"

Next ==
    \/ ArithmeticFlow_start
    \/ ArithmeticFlow_add_step
    \/ ArithmeticFlow_subtract_step
    \/ ArithmeticFlow_multiply_step
    \/ ArithmeticFlow_end
    \/ ParallelOpsFlow_start
    \/ ParallelOpsFlow_add_constant_begin
    \/ ParallelOpsFlow_add_constant_finish
    \/ ParallelOpsFlow_multiply_constant_begin
    \/ ParallelOpsFlow_multiply_constant_finish
    \/ ParallelOpsFlow_join
    \/ ParallelOpsFlow_end
    \/ SquareNumbersFlow_start
    \/ SquareNumbersFlow_square
    \/ SquareNumbersFlow_join
    \/ SquareNumbersFlow_end
    \/ RetryFlow_start
    \/ RetryFlow_flaky_service_begin
    \/ RetryFlow_flaky_service_succeed
    \/ RetryFlow_flaky_service_raise
    \/ RetryFlow_join
    \/ RetryFlow_end
    \/ CSVProcessingFlow_start
    \/ CSVProcessingFlow_process_csv
    \/ CSVProcessingFlow_end
    \/ StudentProcessingFlow_start
    \/ StudentProcessingFlow_generate_student_data
    \/ StudentProcessingFlow_process_student
    \/ StudentProcessingFlow_join_results
    \/ StudentProcessingFlow_end
    \/ PromptResponseFlow_start
    \/ PromptResponseFlow_generate_response
    \/ PromptResponseFlow_create_card
    \/ PromptResponseFlow_end
    \/ DataVisualizationFlow_start
    \/ DataVisualizationFlow_visualize_data
    \/ DataVisualizationFlow_end

Spec == Init /\ [][Next]_vars

(* The scheduler keeps running tasks while some task is ready to run; the   *)
(* outcome of an attempt stays free.                                        *)
RetryFlowNext ==
    \/ RetryFlow_start
    \/ RetryFlow_flaky_service_begin
    \/ RetryFlow_flaky_service_succeed
    \/ RetryFlow_flaky_service_raise
    \/ RetryFlow_join
    \/ RetryFlow_end

SpecFair == Init /\ [][Next]_vars /\ WF_vars(RetryFlowNext)

----------------------------------------------------------------------------
(* Properties of the flows. *)

Pos(seq, x) == CHOOSE i \in 1..Len(seq) : seq[i] = x

Before(seq, x, y) ==
    /\ \E i \in 1..Len(seq) : seq[i] = x
    /\ \E i \in 1..Len(seq) : seq[i] = y
    /\ Pos(seq, x) < Pos(seq, y)

ArithmeticOrder ==
    <<T("start"), T("add_step"), T("subtract_step"), T("multiply_step"), T("end")>>

(* C1: ArithmeticFlow executes start, add_step, subtract_step,              *)
(* multiply_step, end once each in that order, and when end runs            *)
(* number = 24 and history = [5, 15, 12, 24].                               *)
C1_ArithmeticChain ==
    flow = "ArithmeticFlow" =>
        /\ Len(log) <= Len(ArithmeticOrder)
        /\ log = SubSeq(ArithmeticOrder, 1, Len(log))
        /\ Started(T("end")) =>
              /\ log = ArithmeticOrder
              /\ tasks[T("end")].data.number = 24
              /\ tasks[T("end")].data.history = <<5, 15, 12, 24>>

C1_Witness == flow = "ArithmeticFlow" /\ IsDone(T("end")) /\ runState = "succeeded"

(* C2: in ParallelOpsFlow the join computes add_result = 15,                *)
(* multiply_result = 20 and final_sum = 35 for every interleaving of the    *)
(* two branches.                                                            *)
C2_JoinResults ==
    (flow = "ParallelOpsFlow" /\ Started(T("join"))) =>
        /\ IsDone(T("join"))
        /\ tasks[T("join")].data.add_result = 15
        /\ tasks[T("join")].data.multiply_result = 20
        /\ tasks[T("join")].data.final_sum = 35

(* The branches overlapped: add_constant began first, multiply_constant     *)
(* completed first.                                                         *)
C2_Witness ==
    /\ flow = "ParallelOpsFlow" /\ IsDone(T("join"))
    /\ Before(log, T("add_constant"), T("multiply_constant"))
    /\ Before(finished, T("multiply_constant"), T("add_constant"))

SquareTasks == {t \in DOMAIN tasks : t[1] = "square"}

(* C4: in SquareNumbersFlow the foreach over number_list (length K) creates *)
(* exactly K square tasks, and at the join squared_numbers[i] =             *)
(* number_list[i]^2, original_numbers[i] = number_list[i] in source order,  *)
(* squared_sum is the sum of the squares (55 for "1,2,3,4,5").              *)
C4_ForeachSquares ==
    (flow = "SquareNumbersFlow" /\ IsDone(T("start"))) =>
        LET number_list == tasks[T("start")].data.number_list
            K == Len(number_list)
        IN  /\ SquareTasks \subseteq {<<"square", i>> : i \in 0..(K - 1)}
            /\ Started(T("join")) =>
                  LET j == tasks[T("join")].data
                  IN  /\ SquareTasks = {<<"square", i>> : i \in 0..(K - 1)}
                      /\ Cardinality(SquareTasks) = K
                      /\ Len(inputs) = K
                      /\ Len(j.squared_numbers) = K /\ Len(j.original_numbers) = K
                      /\ \A i \in 1..K :
                            /\ j.squared_numbers[i] = number_list[i] * number_list[i]
                            /\ j.original_numbers[i] = number_list[i]
                      /\ j.squared_sum =
                            SumSeq([i \in 1..K |-> number_list[i] * number_list[i]])
                      /\ numbers = NumbersDefault => j.squared_sum = 55

C4_Witness ==
    /\ flow = "SquareNumbersFlow" /\ numbers = NumbersDefault /\ IsDone(T("join"))
    /\ tasks[T("join")].data.squared_sum = 55
    /\ Before(finished, <<"square", 4>>, <<"square", 0>>)

FlakyTasks == {t \in DOMAIN tasks : t[1] = "flaky_service"}

Exhausted == \E t \in FlakyTasks : tasks[t].state = "failed"

(* C5 as claimed: a flaky_service task that raises on every attempt is      *)
(* attempted exactly 3 times before the run fails.                          *)
C5_ExactlyThreeAttempts ==
    \A t \in FlakyTasks : tasks[t].state = "failed" => tasks[t].attempts = 3

(* C5 amended: @retry(times=3) allows three retries after the first         *)
(* attempt: a flaky_service task that raises on every attempt is attempted  *)
(* exactly 4 times (retry_count 0..3) and then the run fails.               *)
C5_ExactlyFourAttempts ==
    \A t \in FlakyTasks :
        /\ tasks[t].attempts <= RetryTimes + 1
        /\ tasks[t].state = "failed" =>
              /\ tasks[t].attempts = RetryTimes + 1
              /\ tasks[t].retry_count = RetryTimes
              /\ runState = "failed"

C5_Witness == flow = "RetryFlow" /\ Exhausted /\ runState = "failed"

(* C6 as claimed: on the successful third attempt the attempt number        *)
(* exposed to the body is 3.                                                *)
C6_AttemptNumberThree ==
    \A t \in FlakyTasks :
        (tasks[t].state = "done" /\ tasks[t].attempts = 3) => tasks[t].retry_count = 3

(* C6 amended: a flaky_service task that fails twice and succeeds on its    *)
(* third attempt completes with retry_count = 2 (attempts are numbered from *)
(* 0), does not fail the run, and only result = "SUCCESS" (with the         *)
(* inherited jobs) is in its artifacts and in the join's input for it.      *)
C6_ThirdAttemptSucceeds ==
    \A t \in FlakyTasks :
        (tasks[t].state = "done" /\ tasks[t].attempts = 3) =>
            /\ tasks[t].retry_count = 2
            /\ tasks[t].data = [jobs |-> Range(num_jobs), result |-> "SUCCESS"]
            /\ runState = "failed" =>
                  \E u \in FlakyTasks \ {t} : tasks[u].state = "failed"
            /\ Started(T("join")) =>
                  /\ IsDone(T("join"))
                  /\ inputs[t[2] + 1].data = [jobs |-> Range(num_jobs), result |-> "SUCCESS"]
                  /\ tasks[T("join")].data.results[t[2] + 1] = "SUCCESS"

C6_Witness ==
    /\ flow = "RetryFlow" /\ runState = "succeeded"
    /\ \E t \in FlakyTasks : tasks[t].attempts = 3 /\ tasks[t].retry_count = 2

(* C7: once a flaky_service task has exhausted its retries the run is       *)
(* failed and neither join nor end has started, in that state and in every  *)
(* later one.                                                               *)
C7_NoStepAfterExhaustion ==
    /\ [](Exhausted => (runState = "failed" /\ ~Started(T("join")) /\ ~Started(T("end"))))
    /\ [][Exhausted => Exhausted']_vars

C7_Witness ==
    /\ flow = "RetryFlow" /\ num_jobs >= 2 /\ Exhausted
    /\ \E t \in FlakyTasks : tasks[t].state = "done"
    /\ \A t \in FlakyTasks : tasks[t].state \in {"done", "failed"}
    /\ Cardinality(FlakyTasks) = num_jobs

(* C8: in ParallelOpsFlow each branch sees artifact = 10 from start and     *)
(* only its own constant and result, for every interleaving: add_constant   *)
(* has constant 5 and result 15, multiply_constant has constant 2 and       *)
(* result 20, and neither has a result before it wrote one.                 *)
C8_BranchIsolation ==
    flow = "ParallelOpsFlow" =>
        /\ Started(T("add_constant")) =>
              LET d == tasks[T("add_constant")].data
              IN  /\ d.artifact = 10 /\ d.constant = 5
                  /\ "result" \in DOMAIN d <=> IsDone(T("add_constant"))
                  /\ "result" \in DOMAIN d => d.result = 15
        /\ Started(T("multiply_constant")) =>
              LET d == tasks[T("multiply_constant")].data
              IN  /\ d.artifact = 10 /\ d.constant = 2
                  /\ "result" \in DOMAIN d <=> IsDone(T("multiply_constant"))
                  /\ "result" \in DOMAIN d => d.result = 20

(* multiply_constant ran from start to finish while add_constant was        *)
(* between its two assignments.                                             *)
C8_Witness ==
    /\ flow = "ParallelOpsFlow"
    /\ Before(log, T("add_constant"), T("multiply_constant"))
    /\ IsDone(T("multiply_constant"))
    /\ Started(T("add_constant")) /\ tasks[T("add_constant")].state = "running"

Blank(s) == \A i \in 1..Len(s) : IsSpace(s[i])

NothingRaised(s) ==
    /\ ~Blank(s)
    /\ \A i \in 1..Len(Lines(s)) : ReadRow(Lines(s)[i]).ok

(* C9: for every csv_file content process_csv completes and end follows,    *)
(* error_message is None exactly when validation and parsing raised         *)
(* nothing, and for empty or blank content error_message is "The CSV file   *)
(* is empty" and row_count is not written.                                  *)
C9_ProcessCsvAlwaysProceeds ==
    flow = "CSVProcessingFlow" =>
        /\ runState # "failed"
        /\ Started(T("process_csv")) =>
              LET d == tasks[T("process_csv")].data
              IN  /\ IsDone(T("process_csv"))
                  /\ "error_message" \in DOMAIN d
                  /\ d.error_message = None <=> NothingRaised(csv_file)
                  /\ Blank(csv_file) =>
                        /\ d.error_message = "The CSV file is empty"
                        /\ "row_count" \notin DOMAIN d
                  /\ ~Started(T("end")) => ENABLED CSVProcessingFlow_end
        /\ Started(T("end")) => (IsDone(T("end")) /\ runState = "succeeded")

C9_Witness ==
    /\ flow = "CSVProcessingFlow" /\ IsDone(T("end"))
    /\ Len(csv_file) >= 2 /\ Blank(csv_file)
    /\ tasks[T("end")].data.error_message = "The CSV file is empty"

HeaderOnly(s) ==
    /\ ~Blank(s)
    /\ Len(Lines(s)) = 1
    /\ ReadRow(Lines(s)[1]).ok

(* C10: a CSV with a header row and no data rows ends process_csv with      *)
(* error_message = "CSV file contains a header but no data rows".           *)
C10_HeaderOnlyReportsNoDataRows ==
    (flow = "CSVProcessingFlow" /\ IsDone(T("process_csv")) /\ HeaderOnly(csv_file)) =>
        tasks[T("process_csv")].data.error_message
            = "CSV file contains a header but no data rows"

StudentTasks == {t \in DOMAIN tasks : t[1] = "process_student"}

(* C11: in StudentProcessingFlow every processed student has score          *)
(* min(s + 10, 100) for its item's score s, so no processed score exceeds   *)
(* 100, and total_score at join_results is the sum of the capped scores.    *)
C11_ScoresCapped ==
    (flow = "StudentProcessingFlow" /\ IsDone(T("generate_student_data"))) =>
        LET students == tasks[T("generate_student_data")].data.students
            capped == [i \in 1..Len(students) |->
                          IF students[i].score + 10 < 100 THEN students[i].score + 10
                          ELSE 100]
        IN  /\ \A t \in StudentTasks :
                  /\ tasks[t].data.student.score = capped[t[2] + 1]
                  /\ tasks[t].data.student.score <= 100
            /\ Started(T("join_results")) =>
                  /\ Cardinality(StudentTasks) = Len(students)
                  /\ tasks[T("join_results")].data.total_score = SumSeq(capped)

C11_Witness ==
    /\ flow = "StudentProcessingFlow" /\ IsDone(T("join_results"))
    /\ \E t \in StudentTasks : tasks[t].data.student.score = 100
    /\ \E t \in StudentTasks : tasks[t].data.student.score = 60
    /\ tasks[T("join_results")].data.total_score = 160

HttpFailures == {"ConnectionError", "HTTPError"}

(* C12: generate_response has no retry policy: it is attempted once, and    *)
(* when the HTTP call fails (transport error or non-2xx status) the task    *)
(* and the run fail and neither create_card nor end ever starts.            *)
C12_NoRetryFailsRun ==
    (flow = "PromptResponseFlow" /\ Started(T("generate_response"))) =>
        LET g == tasks[T("generate_response")]
        IN  /\ g.attempts = 1
            /\ g.state \in {"done", "failed"}
            /\ (g.state = "failed" /\ g.data.error \in HttpFailures) =>
                  /\ runState = "failed"
                  /\ ~Started(T("create_card"))
                  /\ ~Started(T("end"))

C12_Witness ==
    /\ flow = "PromptResponseFlow" /\ Started(T("generate_response"))
    /\ tasks[T("generate_response")].state = "failed"
    /\ tasks[T("generate_response")].data.error = "HTTPError"
    /\ runState = "failed"

(* C13: in DataVisualizationFlow the start step generates exactly           *)
(* num_points data points: len(data) = len(cluster_labels) = num_points,    *)
(* the count the end step reports.                                          *)
C13_ExactlyNumPoints ==
    (flow = "DataVisualizationFlow" /\ IsDone(T("start"))) =>
        /\ Len(tasks[T("start")].data.data) = num_points
        /\ Len(tasks[T("start")].data.cluster_labels) = num_points

(* C14: in RetryFlow the join does not begin until every one of the         *)
(* num_jobs flaky_service tasks has reached a terminal state, and when its  *)
(* body executes results has exactly num_jobs entries, all "SUCCESS".       *)
C14_JoinAfterAllBranches ==
    (flow = "RetryFlow" /\ Started(T("join"))) =>
        /\ \A i \in 1..num_jobs :
              /\ Started(Flaky(i))
              /\ tasks[Flaky(i)].state \in {"done", "failed"}
              /\ tasks[Flaky(i)].state = "done"
        /\ IsDone(T("join"))
        /\ Len(inputs) = num_jobs
        /\ Len(tasks[T("join")].data.results) = num_jobs
        /\ \A i \in 1..num_jobs : tasks[T("join")].data.results[i] = "SUCCESS"

C14_Witness ==
    /\ flow = "RetryFlow" /\ num_jobs = MaxJobs
    /\ IsDone(T("join")) /\ ~Started(T("end"))
    /\ \A t \in FlakyTasks : tasks[t].attempts >= 2
    /\ Len(tasks[T("join")].data.results) = MaxJobs

RunEnded == runState \in {"succeeded", "failed"}

(* C15: in RetryFlow the attempt counters of a flaky_service task only      *)
(* increase and never exceed the retry budget (times = 3 retries, hence     *)
(* 4 attempts), so under fair scheduling every run, whatever the outcomes   *)
(* of the attempts, ends: end completes or the run fails, never both.       *)
C15_RetryFlowTerminates ==
    /\ [][\A t \in FlakyTasks :
              /\ t \in DOMAIN tasks'
              /\ tasks'[t].attempts >= tasks[t].attempts
              /\ tasks'[t].retry_count >= tasks[t].retry_count
              /\ tasks'[t].retry_count <= RetryTimes
              /\ tasks'[t].attempts <= RetryTimes + 1]_vars
    /\ (flow = "RetryFlow") => <>(IsDone(T("end")) \/ runState = "failed")
    /\ [](flow = "RetryFlow" => ~(IsDone(T("end")) /\ (runState = "failed" \/ Exhausted)))
    /\ [](flow = "RetryFlow" => (runState = "succeeded" <=> IsDone(T("end"))))

C15_Witness ==
    /\ flow = "RetryFlow" /\ num_jobs = MaxJobs /\ RunEnded
    /\ IsDone(T("end")) /\ ~Exhausted
    /\ \E t \in FlakyTasks : tasks[t].retry_count = RetryTimes

(* C16: in ArithmeticFlow, after the k-th step of start, add_step,          *)
(* subtract_step, multiply_step has completed, history has exactly k        *)
(* entries, its last entry equals number, and its first k - 1 entries are   *)
(* the history its predecessor left; end leaves number and history as       *)
(* multiply_step left them.                                                 *)
C16_HistoryTracksNumber ==
    flow = "ArithmeticFlow" =>
        /\ \A k \in 1..4 :
               IsDone(ArithmeticOrder[k]) =>
                   LET self == tasks[ArithmeticOrder[k]].data
                   IN  /\ Len(self.history) = k
                       /\ self.history[k] = self.number
                       /\ k > 1 =>
                              /\ IsDone(ArithmeticOrder[k - 1])
                              /\ SubSeq(self.history, 1, k - 1)
                                     = tasks[ArithmeticOrder[k - 1]].data.history
        /\ IsDone(T("end")) =>
               /\ tasks[T("end")].data.history = tasks[T("multiply_step")].data.history
               /\ tasks[T("end")].data.number = tasks[T("multiply_step")].data.number

C16_Witness ==
    /\ flow = "ArithmeticFlow" /\ IsDone(T("multiply_step")) /\ ~Started(T("end"))
    /\ Len(tasks[T("multiply_step")].data.history) = 4
    /\ tasks[T("multiply_step")].data.history[4] = tasks[T("multiply_step")].data.number

====
